---- MODULE Spec2Model ----
(***************************************************************************)
(* Model of the Ludo match state machine (class LudoGame, src/game/        *)
(* LudoGame.js, kept here as src/unnamed/part_001) as driven through       *)
(* GameService (src/src/services/GameService.js).                          *)
(*                                                                         *)
(* Player records are modelled by their id; the timestamp fields of        *)
(* lastDiceRoll and of the move records carry no game logic and are left   *)
(* out.  Array indices are 0-based as in the source; a TLA+ sequence s     *)
(* holds the element of index i at s[i + 1].                               *)
(***************************************************************************)
EXTENDS Integers, Sequences, FiniteSets, TLC

\* ---------------------------------------------------------------- bounds
\* Number of users that join the match of Spec and of SpecPlay.
NumIds == 3
\* Number of moves made in one run of Spec.
MaxMoves == 2
\* Number of moves made in one run of SpecPlay, which starts in the middle
\* of a game.
PlayMaxMoves == 1
\* Number of users that ask to join the match of SpecLobby, and of moves made
\* in one of its runs.
LobbyNumIds == 5
LobbyMaxMoves == 0
\* Number of players removed from the match in one run.
MaxRemovals == 1
\* Highest piece index the clients ask to move.
MaxPieceIndex == 1
\* Number of players removed from the match in one run of SpecLeave.
LeaveMaxRemovals == 2
\* Number of requests that ask the registry for the match at the same time.
NumRequests == 3
\* Number of instances of the match built in one run of the service.
MaxInstances == 3
\* Number of reconnect timers armed at the same time.
MaxTimers == 2

\* ------------------------------------------------------ program constants
totalSquares == 52
homeSquares == 6
safeSquares == {1, 9, 14, 22, 27, 35, 40, 48}
playerStartSquares == <<1, 14, 27, 40>>
playerHomeEntrySquares == <<51, 12, 25, 38>>
maxPlayersPerGame == 4
minPlayersPerGame == 2
\* Number of pieces of a player ([0, 0, 0, 0]).
NumPieces == 4
\* Faces of the dice: Math.floor(Math.random() * 6) + 1.
DiceFaces == 6

\* ----------------------------------------------------------------- inputs
PlayerIds == 1..NumIds
LobbyPlayerIds == 1..LobbyNumIds
\* A user who is in no match.
Stranger == LobbyNumIds + 1
\* null for winnerId and for the playerId of an absent roll.
NoPlayer == 0
DiceValues == 1..DiceFaces
\* Piece indices a client submits: the first pieces and one index past the
\* end of the array.
PieceInputs == 0..MaxPieceIndex \cup {NumPieces}
\* lastDiceRoll = null.
NoRoll == [playerId |-> NoPlayer, value |-> 0]

VARIABLES
  players,        \* this.players, as the sequence of the players' ids
  currentTurn,    \* this.currentTurn, 0-based index into players
  gameStatus,     \* this.gameStatus
  winnerId,       \* this.winnerId
  lastDiceRoll,   \* this.lastDiceRoll
  moveHistory,    \* this.moveHistory
  piecePositions, \* this.piecePositions, id -> the 4 positions
  call,           \* the last call made on the match and what it returned
  removals,       \* how many removePlayer calls have removed a player
  moves,          \* how many movePiece calls have moved a piece in this run
  rollConsumed,   \* a move has succeeded since the last successful roll
  registry,       \* GameService.activeGames for the id of the match, and the
                  \* getGameInstance calls in progress for it
  disconnected,   \* the players the database marks is_connected = false
  timers          \* the reconnect timers armed and not yet fired

matchVars == <<players, currentTurn, gameStatus, winnerId, lastDiceRoll,
               moveHistory, piecePositions>>
vars == <<players, currentTurn, gameStatus, winnerId, lastDiceRoll,
          moveHistory, piecePositions, call, removals, moves, rollConsumed,
          registry, disconnected, timers>>

\* ---------------------------------------------------------------- helpers
Range(s) == {s[k] : k \in 1..Len(s)}

\* Array.prototype.splice(index, 1) with a 0-based index.
Splice(s, index) == [k \in 1..(Len(s) - 1) |-> IF k <= index THEN s[k] ELSE s[k + 1]]

\* What a call returned: outcome is "ok", false for removePlayer of an
\* absent player, or the kind of the error thrown.
Call(op, playerId, outcome, extraTurn, gameEnded) ==
  [op |-> op, playerId |-> playerId, outcome |-> outcome,
   extraTurn |-> extraTurn, gameEnded |-> gameEnded]

\* The result of calculateMove for a move that is not valid.
InvalidMove ==
  [isValid |-> FALSE, newPosition |-> 0, canCapture |-> FALSE,
   capturedPlayer |-> NoPlayer, entersHome |-> FALSE]

\* ------------------------------------------------------- LudoGame helpers
isSafeSquare(position) == position \in safeSquares

\* players.findIndex(player => player.id === playerId): 0-based, -1 if absent.
getPlayerPosition(playerId) ==
  IF playerId \in Range(players)
  THEN (CHOOSE k \in 1..Len(players) :
          /\ players[k] = playerId
          /\ \A j \in 1..(k - 1) : players[j] # playerId) - 1
  ELSE -1

\* isPlayerTurn accepting every player of the match.
isPlayerTurnAnyMember(playerId) == playerId \in Range(players)

isPlayerTurn(playerId) ==
  IF Len(players) = 0 THEN FALSE ELSE players[currentTurn + 1] = playerId

\* The first player in players order, other than excludePlayerId, with a
\* piece on position; null if there is none.
getPlayerAtPosition(position, excludePlayerId) ==
  LET occ == {k \in 1..Len(players) :
                /\ players[k] # excludePlayerId
                /\ \E i \in 1..NumPieces : piecePositions[players[k]][i] = position}
  IN IF occ = {} THEN NoPlayer
     ELSE players[CHOOSE k \in occ : \A j \in occ : k <= j]

\* checkWinCondition with some() in place of every().
checkWinConditionSome(pp, playerId) ==
  \E i \in 1..NumPieces : pp[playerId][i] = totalSquares + homeSquares

checkWinCondition(pp, playerId) ==
  \A i \in 1..NumPieces : pp[playerId][i] = totalSquares + homeSquares

\* capturePiece leaving the piece of the target where it stands.
capturePieceNone(pp, targetPlayerId, position) == pp

\* The positions after capturePiece(targetPlayerId, position): the first
\* piece of the target standing on position goes back to 0.
capturePiece(pp, targetPlayerId, position) ==
  LET hit == {i \in 1..NumPieces : pp[targetPlayerId][i] = position}
  IN IF hit = {} THEN pp
     ELSE LET first == CHOOSE i \in hit : \A j \in hit : i <= j
          IN [pp EXCEPT ![targetPlayerId][first] = 0]

nextTurn == (currentTurn + 1) % Len(players)

\* The overshoot test of the home track without its bound.
fitsHomeTrackUnbounded(newHomePosition) == TRUE

\* The overshoot test of the home track, one slot too long.
fitsHomeTrackOneMore(newHomePosition) == newHomePosition <= homeSquares + 1

\* newHomePosition <= this.boardConfig.homeSquares
fitsHomeTrack(newHomePosition) == newHomePosition <= homeSquares

\* A piece at home leaving on any roll.
leavesHomeOnAnyRoll(diceValue) == TRUE

\* diceValue === 6, the test a piece at position 0 has to pass.
leavesHome(diceValue) == diceValue = 6

\* The home position counted from the home-entry square itself.
homePositionFromEntry(potentialPosition, homeEntrySquare) ==
  totalSquares + 1 + (potentialPosition - homeEntrySquare)

\* homePosition = totalSquares + 1 + (potentialPosition - homeEntrySquare - 1)
homePositionFor(potentialPosition, homeEntrySquare) ==
  totalSquares + 1 + (potentialPosition - homeEntrySquare - 1)

\* The capture test without any capture.
capturesNever(newPosition, occupyingPlayer) == FALSE

\* The capture test without the safe squares.
capturesOnSafeSquares(newPosition, occupyingPlayer) ==
  newPosition <= totalSquares /\ occupyingPlayer # NoPlayer

\* The capture test: on the main track, off the safe squares, on a square
\* where getPlayerAtPosition finds another player.
captures(newPosition, occupyingPlayer) ==
  /\ newPosition <= totalSquares
  /\ ~isSafeSquare(newPosition)
  /\ occupyingPlayer # NoPlayer

\* The test for an own piece on the destination, never blocking.
blockedByOwnPieceNever(playerId, pieceIndex, newPosition) == FALSE

\* piecePositions[playerId].some((pos, idx) => pos === newPosition && idx !== pieceIndex)
blockedByOwnPiece(playerId, pieceIndex, newPosition) ==
  \E idx \in 0..(NumPieces - 1) :
    /\ piecePositions[playerId][idx + 1] = newPosition
    /\ idx # pieceIndex

\* calculateMove(playerId, pieceIndex, diceValue), evaluated on the current
\* positions.  A pieceIndex past the end of the array reads undefined, which
\* fails every comparison down to the home-track branch and is not valid.
calculateMove(playerId, pieceIndex, diceValue) ==
  IF pieceIndex \notin 0..(NumPieces - 1) THEN InvalidMove
  ELSE
  LET currentPosition == piecePositions[playerId][pieceIndex + 1]
      playerPosition == getPlayerPosition(playerId)
      potentialPosition == currentPosition + diceValue
      homeEntrySquare == playerHomeEntrySquares[playerPosition + 1]
      homePosition == homePositionFor(potentialPosition, homeEntrySquare)
      newHomePosition == (currentPosition - totalSquares) + diceValue
      \* -1 stands for the early return { isValid: false }
      newPosition ==
        IF currentPosition = 0
        THEN IF leavesHome(diceValue) THEN playerStartSquares[playerPosition + 1] ELSE -1
        ELSE IF currentPosition > 0 /\ currentPosition <= totalSquares
        THEN IF currentPosition <= homeEntrySquare /\ potentialPosition > homeEntrySquare
             THEN IF homePosition <= totalSquares + homeSquares THEN homePosition ELSE -1
             ELSE IF potentialPosition <= totalSquares
                  THEN (IF potentialPosition > totalSquares
                        THEN potentialPosition - totalSquares
                        ELSE potentialPosition)
                  ELSE -1
        ELSE IF fitsHomeTrack(newHomePosition)
             THEN totalSquares + newHomePosition
             ELSE -1
      entersHome ==
        /\ currentPosition > 0 /\ currentPosition <= totalSquares
        /\ currentPosition <= homeEntrySquare /\ potentialPosition > homeEntrySquare
      occupyingPlayer == getPlayerAtPosition(newPosition, playerId)
      canCapture == captures(newPosition, occupyingPlayer)
  IN IF newPosition = -1 THEN InvalidMove
     ELSE IF blockedByOwnPiece(playerId, pieceIndex, newPosition) THEN InvalidMove
     ELSE [isValid |-> TRUE, newPosition |-> newPosition,
           canCapture |-> canCapture,
           capturedPlayer |-> IF canCapture THEN occupyingPlayer ELSE NoPlayer,
           entersHome |-> entersHome]

\* getValidMoves(playerId, diceValue), as the set of the piece indices listed.
getValidMoves(playerId, diceValue) ==
  {pieceIndex \in 0..(NumPieces - 1) :
     calculateMove(playerId, pieceIndex, diceValue).isValid}

\* moveHistory.slice(-10): the last 10 elements.
lastTen(s) == SubSeq(s, IF Len(s) > 10 THEN Len(s) - 9 ELSE 1, Len(s))

\* getGameState(), without gameId, currentPlayer and boardConfig.
getGameState ==
  [players |-> players, currentTurn |-> currentTurn, gameStatus |-> gameStatus,
   winnerId |-> winnerId, piecePositions |-> piecePositions,
   lastDiceRoll |-> lastDiceRoll, moveHistory |-> lastTen(moveHistory)]

\* getPublicGameState(requestingPlayerId): the roll of another player is
\* replaced by null.
getPublicGameState(requestingPlayerId) ==
  IF lastDiceRoll # NoRoll /\ lastDiceRoll.playerId # requestingPlayerId
  THEN [getGameState EXCEPT !.lastDiceRoll = NoRoll]
  ELSE getGameState

\* getPlayerStats(playerId), for a player of the match.
getPlayerStats(playerId) ==
  [piecesHome |->
     Cardinality({i \in 1..NumPieces :
                    piecePositions[playerId][i] = totalSquares + homeSquares}),
   piecesInPlay |->
     Cardinality({i \in 1..NumPieces :
                    /\ piecePositions[playerId][i] > 0
                    /\ piecePositions[playerId][i] < totalSquares + homeSquares}),
   piecesAtStart |->
     Cardinality({i \in 1..NumPieces : piecePositions[playerId][i] = 0}),
   totalMoves |->
     Cardinality({k \in 1..Len(moveHistory) : moveHistory[k].playerId = playerId})]

\* The enumeration of getValidMoves passing over the pieces at home.
validMovesOffHome(playerId, diceValue) ==
  {[pieceIndex |-> pieceIndex,
    from |-> piecePositions[playerId][pieceIndex + 1],
    to |-> calculateMove(playerId, pieceIndex, diceValue).newPosition,
    canCapture |-> calculateMove(playerId, pieceIndex, diceValue).canCapture,
    capturedPlayer |-> calculateMove(playerId, pieceIndex, diceValue).capturedPlayer,
    entersHome |-> calculateMove(playerId, pieceIndex, diceValue).entersHome] :
   pieceIndex \in {i \in 0..(NumPieces - 1) :
                     /\ piecePositions[playerId][i + 1] # 0
                     /\ calculateMove(playerId, i, diceValue).isValid}}

\* The array validMoves that getValidMoves(playerId, diceValue) returns, as
\* the set of its elements.
validMoves(playerId, diceValue) ==
  {[pieceIndex |-> pieceIndex,
    from |-> piecePositions[playerId][pieceIndex + 1],
    to |-> calculateMove(playerId, pieceIndex, diceValue).newPosition,
    canCapture |-> calculateMove(playerId, pieceIndex, diceValue).canCapture,
    capturedPlayer |-> calculateMove(playerId, pieceIndex, diceValue).capturedPlayer,
    entersHome |-> calculateMove(playerId, pieceIndex, diceValue).entersHome] :
   pieceIndex \in getValidMoves(playerId, diceValue)}

\* JSON.parse(JSON.stringify(gameState)): the snapshot as it comes back from
\* the cache.  Ids, positions, indices, status strings, null and arrays are
\* kept; the fields are copied one by one.
cached(gameState) ==
  [players |-> [k \in 1..Len(gameState.players) |-> gameState.players[k]],
   currentTurn |-> gameState.currentTurn,
   gameStatus |-> gameState.gameStatus,
   winnerId |-> gameState.winnerId,
   piecePositions |-> [p \in DOMAIN gameState.piecePositions |->
                         [i \in 1..NumPieces |-> gameState.piecePositions[p][i]]],
   lastDiceRoll |-> [playerId |-> gameState.lastDiceRoll.playerId,
                     value |-> gameState.lastDiceRoll.value],
   moveHistory |-> [k \in 1..Len(gameState.moveHistory) |-> gameState.moveHistory[k]]]

\* restoreGameFromState(cachedState): the fields of the match it builds.
restoreGameFromState(cachedState) ==
  [players |-> cachedState.players,
   currentTurn |-> cachedState.currentTurn,
   gameStatus |-> cachedState.gameStatus,
   winnerId |-> cachedState.winnerId,
   piecePositions |-> cachedState.piecePositions,
   lastDiceRoll |-> cachedState.lastDiceRoll,
   moveHistory |-> cachedState.moveHistory]

\* The record with the position read after the piece has been moved.
moveRecordReadAfterMove(playerId, pieceIndex, diceValue, move) ==
  [playerId |-> playerId, pieceIndex |-> pieceIndex, diceValue |-> diceValue,
   from |-> move.newPosition, to |-> move.newPosition,
   captured |-> move.canCapture, capturedPlayer |-> move.capturedPlayer]

\* The record movePiece pushes on moveHistory.
moveRecord(playerId, pieceIndex, diceValue, move) ==
  [playerId |-> playerId, pieceIndex |-> pieceIndex, diceValue |-> diceValue,
   from |-> piecePositions[playerId][pieceIndex + 1], to |-> move.newPosition,
   captured |-> move.canCapture, capturedPlayer |-> move.capturedPlayer]

\* The test on the stored roll without the comparison of the values.
rollMismatchIgnoringValue(playerId, diceValue) ==
  \/ lastDiceRoll = NoRoll
  \/ lastDiceRoll.playerId # playerId

\* The test of movePiece on the stored roll ("Invalid dice value").
rollMismatch(playerId, diceValue) ==
  \/ lastDiceRoll = NoRoll
  \/ lastDiceRoll.playerId # playerId
  \/ lastDiceRoll.value # diceValue

\* The stored roll after a successful movePiece: the method does not
\* assign lastDiceRoll.
rollAfterMove == lastDiceRoll

\* The extra turn granted for a 6 only.
extraTurnForSixOnly(diceValue, move) == diceValue = 6

\* extraTurn = diceValue === 6 || move.canCapture
extraTurnFor(diceValue, move) == diceValue = 6 \/ move.canCapture

\* --------------------------------------------------------------- registry
Requests == 1..NumRequests
\* activeGames.has(gameId) is false; also the instance of a request that has
\* none yet.
NoInstance == 0

\* The registry with created instances built so far, the instance stored
\* under the id of the match, its snapshot in the cache, and no
\* getGameInstance call in progress.
RegistryAtRest(stored, created) ==
  [activeGames |-> stored,
   created |-> created,
   cachedState |-> TRUE,
   pc |-> [r \in Requests |-> "idle"],
   instance |-> [r \in Requests |-> NoInstance]]

\* The match is the one instance built, stored in activeGames.
RegistryLoaded == RegistryAtRest(1, 1)

\* The reconnect timers armed by handlePlayerDisconnection and not yet
\* fired: fresh counts those armed after the last reconnection of a player,
\* stale those armed before it.  No timer is armed.
NoTimers == [fresh |-> 0, stale |-> 0]

\* ------------------------------------------------------------------- Init
\* new LudoGame(gameId, []) as GameService creates it for a fresh game.
Init ==
  /\ players = << >>
  /\ currentTurn = 0
  /\ gameStatus = "waiting"
  /\ winnerId = NoPlayer
  /\ lastDiceRoll = NoRoll
  /\ moveHistory = << >>
  /\ piecePositions = << >>
  /\ call = Call("new", NoPlayer, "ok", FALSE, FALSE)
  /\ removals = 0
  /\ moves = 0
  /\ rollConsumed = FALSE
  /\ registry = RegistryLoaded
  /\ disconnected = {}
  /\ timers = NoTimers

\* ---------------------------------------------------------------- actions
\* A call that drops the stored roll before it throws.
FailsDroppingRoll(op, id, outcome) ==
  /\ call' = Call(op, id, outcome, FALSE, FALSE)
  /\ lastDiceRoll' = NoRoll
  /\ UNCHANGED <<players, currentTurn, gameStatus, winnerId, moveHistory,
                 piecePositions, removals, moves, rollConsumed>>

\* A call that throws (or removePlayer returning false): nothing is assigned.
Fails(op, id, outcome) ==
  /\ call' = Call(op, id, outcome, FALSE, FALSE)
  /\ UNCHANGED <<matchVars, removals, moves, rollConsumed>>

\* The ids a joining player may have.  The caller admits a user to a game
\* once (Game.addPlayer: "Player already in game"), so the id is not one of
\* the match; ids are only ever compared for equality, so the joiner is
\* named by the id that follows those of the match.
NewPlayerIds(ids) ==
  {id \in ids :
     /\ \A k \in 1..Len(players) : players[k] < id
     /\ id = 1 \/ (id - 1) \in Range(players)}

\* addPlayer without the test of the status.
AddPlayerInAnyStatus(id) ==
  IF Len(players) >= maxPlayersPerGame
  THEN Fails("addPlayer", id, "Full")
  ELSE /\ players' = Append(players, id)
       /\ piecePositions' =
            [p \in DOMAIN piecePositions \cup {id} |->
               IF p = id THEN [i \in 1..NumPieces |-> 0] ELSE piecePositions[p]]
       /\ call' = Call("addPlayer", id, "ok", FALSE, FALSE)
       /\ UNCHANGED <<currentTurn, gameStatus, winnerId, lastDiceRoll, moveHistory,
                      removals, moves, rollConsumed>>

\* addPlayer(player)
AddPlayer(id) ==
  IF Len(players) >= maxPlayersPerGame
  THEN Fails("addPlayer", id, "Full")
  ELSE IF gameStatus # "waiting"
  THEN Fails("addPlayer", id, "InvalidState")
  ELSE /\ players' = Append(players, id)
       /\ piecePositions' =
            [p \in DOMAIN piecePositions \cup {id} |->
               IF p = id THEN [i \in 1..NumPieces |-> 0] ELSE piecePositions[p]]
       /\ call' = Call("addPlayer", id, "ok", FALSE, FALSE)
       /\ UNCHANGED <<currentTurn, gameStatus, winnerId, lastDiceRoll, moveHistory,
                      removals, moves, rollConsumed>>

\* removePlayer without the delete of the pieces of the player.
RemovePlayerKeepingPieces(id) ==
  LET playerIndex == getPlayerPosition(id)
      rest == Splice(players, playerIndex)
  IN IF playerIndex = -1
     THEN Fails("removePlayer", id, "false")
     ELSE /\ players' = rest
          /\ currentTurn' = IF currentTurn >= Len(rest) THEN 0 ELSE currentTurn
          /\ call' = Call("removePlayer", id, "ok", FALSE, FALSE)
          /\ removals' = removals + 1
          /\ UNCHANGED <<gameStatus, winnerId, lastDiceRoll, moveHistory, moves,
                         rollConsumed, piecePositions>>

\* removePlayer(playerId)
RemovePlayer(id) ==
  LET playerIndex == getPlayerPosition(id)
      rest == Splice(players, playerIndex)
  IN IF playerIndex = -1
     THEN Fails("removePlayer", id, "false")
     ELSE /\ players' = rest
          /\ piecePositions' = [p \in DOMAIN piecePositions \ {id} |-> piecePositions[p]]
          /\ currentTurn' = IF currentTurn >= Len(rest) THEN 0 ELSE currentTurn
          /\ call' = Call("removePlayer", id, "ok", FALSE, FALSE)
          /\ removals' = removals + 1
          /\ UNCHANGED <<gameStatus, winnerId, lastDiceRoll, moveHistory, moves,
                         rollConsumed>>

\* startGame()
StartGame ==
  IF Len(players) < minPlayersPerGame
  THEN Fails("startGame", NoPlayer, "InvalidState")
  ELSE /\ gameStatus' = "playing"
       /\ currentTurn' = 0
       /\ call' = Call("startGame", NoPlayer, "ok", FALSE, FALSE)
       /\ UNCHANGED <<players, winnerId, lastDiceRoll, moveHistory, piecePositions,
                      removals, moves, rollConsumed>>

\* rollDice(playerId); diceValue is the value the generator produced.
RollDice(id, diceValue) ==
  IF ~isPlayerTurn(id)
  THEN Fails("rollDice", id, "NotYourTurn")
  ELSE IF gameStatus # "playing"
  THEN Fails("rollDice", id, "InvalidState")
  ELSE /\ lastDiceRoll' = [playerId |-> id, value |-> diceValue]
       /\ call' = Call("rollDice", id, "ok", FALSE, FALSE)
       /\ rollConsumed' = FALSE
       /\ UNCHANGED <<players, currentTurn, gameStatus, winnerId, moveHistory,
                      piecePositions, removals, moves>>

\* movePiece(playerId, pieceIndex, diceValue)
MovePiece(id, pieceIndex, diceValue) ==
  IF ~isPlayerTurn(id)
  THEN Fails("movePiece", id, "NotYourTurn")
  ELSE IF gameStatus # "playing"
  THEN Fails("movePiece", id, "InvalidState")
  ELSE IF rollMismatch(id, diceValue)
  THEN Fails("movePiece", id, "StaleRoll")
  ELSE LET move == calculateMove(id, pieceIndex, diceValue)
           captured == IF move.canCapture
                       THEN capturePiece(piecePositions, move.capturedPlayer, move.newPosition)
                       ELSE piecePositions
           moved == [captured EXCEPT ![id][pieceIndex + 1] = move.newPosition]
           won == checkWinCondition(moved, id)
           extraTurn == extraTurnFor(diceValue, move)
       IN IF ~move.isValid
          THEN Fails("movePiece", id, "IllegalMove")
          ELSE /\ piecePositions' = moved
               /\ moveHistory' = Append(moveHistory, moveRecord(id, pieceIndex, diceValue, move))
               /\ lastDiceRoll' = rollAfterMove
               /\ gameStatus' = IF won THEN "finished" ELSE gameStatus
               /\ winnerId' = IF won THEN id ELSE winnerId
               /\ currentTurn' = IF won \/ extraTurn THEN currentTurn ELSE nextTurn
               /\ call' = Call("movePiece", id, "ok", ~won /\ extraTurn, won)
               /\ rollConsumed' = TRUE
               /\ moves' = moves + 1
               /\ UNCHANGED <<players, removals>>

\* ------------------------------------------------------------------- Next
\* Who calls removePlayer, rollDice and movePiece: the players of the match
\* and one user who is not in it.
Callers == Range(players) \cup {Stranger}

\* The runs explored: at most maxMoves moves and MaxRemovals removals, on the
\* match held by the registry.
Within(maxMoves) ==
  /\ moves' <= maxMoves
  /\ removals' <= MaxRemovals
  /\ UNCHANGED <<registry, disconnected, timers>>

Next ==
  \/ \E id \in NewPlayerIds(PlayerIds) : AddPlayer(id) /\ Within(MaxMoves)
  \/ \E id \in Callers : RemovePlayer(id) /\ Within(MaxMoves)
  \/ StartGame /\ Within(MaxMoves)
  \/ \E id \in Callers, diceValue \in DiceValues :
       RollDice(id, diceValue) /\ Within(MaxMoves)
  \/ \E id \in Callers, pieceIndex \in PieceInputs, diceValue \in DiceValues :
       MovePiece(id, pieceIndex, diceValue) /\ Within(MaxMoves)

Spec == Init /\ [][Next]_vars

\* The same calls with more users asking to join than the match admits.
NextLobby ==
  \/ \E id \in NewPlayerIds(LobbyPlayerIds) : AddPlayer(id) /\ Within(LobbyMaxMoves)
  \/ \E id \in Callers : RemovePlayer(id) /\ Within(LobbyMaxMoves)
  \/ StartGame /\ Within(LobbyMaxMoves)
  \/ \E id \in Callers, diceValue \in DiceValues :
       RollDice(id, diceValue) /\ Within(LobbyMaxMoves)
  \/ \E id \in Callers, pieceIndex \in PieceInputs, diceValue \in DiceValues :
       MovePiece(id, pieceIndex, diceValue) /\ Within(LobbyMaxMoves)

SpecLobby == Init /\ [][NextLobby]_vars

\* The same calls, with every player of the match leaving it.
WithinLeave ==
  /\ moves' <= LobbyMaxMoves
  /\ removals' <= LeaveMaxRemovals
  /\ UNCHANGED <<registry, disconnected, timers>>

NextLeave ==
  \/ \E id \in NewPlayerIds(PlayerIds) : AddPlayer(id) /\ WithinLeave
  \/ \E id \in Callers : RemovePlayer(id) /\ WithinLeave
  \/ StartGame /\ WithinLeave
  \/ \E id \in Callers, diceValue \in DiceValues :
       RollDice(id, diceValue) /\ WithinLeave
  \/ \E id \in Callers, pieceIndex \in PieceInputs, diceValue \in DiceValues :
       MovePiece(id, pieceIndex, diceValue) /\ WithinLeave

SpecLeave == Init /\ [][NextLeave]_vars

\* reset()
Reset ==
  /\ currentTurn' = 0
  /\ gameStatus' = "waiting"
  /\ winnerId' = NoPlayer
  /\ lastDiceRoll' = NoRoll
  /\ moveHistory' = << >>
  /\ piecePositions' = [p \in DOMAIN piecePositions |->
                          IF p \in Range(players) THEN [i \in 1..NumPieces |-> 0]
                          ELSE piecePositions[p]]
  /\ call' = Call("reset", NoPlayer, "ok", FALSE, FALSE)
  /\ UNCHANGED <<players, removals, moves, rollConsumed>>

\* Every public operation of the match, reset() included, which no caller
\* in the repository uses.
NextReset ==
  \/ \E id \in NewPlayerIds(PlayerIds) : AddPlayer(id) /\ Within(PlayMaxMoves)
  \/ \E id \in Callers : RemovePlayer(id) /\ Within(PlayMaxMoves)
  \/ StartGame /\ Within(PlayMaxMoves)
  \/ \E id \in Callers, diceValue \in DiceValues :
       RollDice(id, diceValue) /\ Within(PlayMaxMoves)
  \/ \E id \in Callers, pieceIndex \in PieceInputs, diceValue \in DiceValues :
       MovePiece(id, pieceIndex, diceValue) /\ Within(PlayMaxMoves)
  \/ Reset /\ Within(PlayMaxMoves)

SpecReset == Init /\ [][NextReset]_vars

\* ------------------------------------------------------- getGameInstance
\* The service after a start of the process: nothing in activeGames, the
\* snapshot of the match in the cache or not.
InitRegistry ==
  /\ players = << >>
  /\ currentTurn = 0
  /\ gameStatus = "waiting"
  /\ winnerId = NoPlayer
  /\ lastDiceRoll = NoRoll
  /\ moveHistory = << >>
  /\ piecePositions = << >>
  /\ call = Call("new", NoPlayer, "ok", FALSE, FALSE)
  /\ removals = 0
  /\ moves = 0
  /\ rollConsumed = FALSE
  /\ \E hit \in BOOLEAN :
       registry = [RegistryAtRest(NoInstance, 0) EXCEPT !.cachedState = hit]
  /\ disconnected = {}
  /\ timers = NoTimers

\* getGameInstance(gameId) up to its first await: the instance in memory is
\* returned, or the snapshot is asked from the cache.
Lookup(r) ==
  /\ registry.pc[r] = "idle"
  /\ registry' =
       IF registry.activeGames # NoInstance
       THEN [registry EXCEPT !.pc[r] = "done", !.instance[r] = registry.activeGames]
       ELSE [registry EXCEPT !.pc[r] = "reading"]
  /\ UNCHANGED <<matchVars, call, removals, moves, rollConsumed, disconnected, timers>>

\* The cache answers with a snapshot: restoreGameFromState builds an
\* instance, which is stored and returned.
Restore(r) ==
  /\ registry.pc[r] = "reading"
  /\ registry.cachedState
  /\ registry' = [registry EXCEPT !.created = @ + 1,
                                   !.activeGames = registry.created + 1,
                                   !.instance[r] = registry.created + 1,
                                   !.pc[r] = "done"]
  /\ UNCHANGED <<matchVars, call, removals, moves, rollConsumed, disconnected, timers>>

\* The cache answers with null: createGameInstance asks the database.
Miss(r) ==
  /\ registry.pc[r] = "reading"
  /\ ~registry.cachedState
  /\ registry' = [registry EXCEPT !.pc[r] = "creating"]
  /\ UNCHANGED <<matchVars, call, removals, moves, rollConsumed, disconnected, timers>>

\* The database has answered: createGameInstance builds an instance, stores
\* it and writes its snapshot to the cache.
Create(r) ==
  /\ registry.pc[r] = "creating"
  /\ registry' = [registry EXCEPT !.created = @ + 1,
                                   !.activeGames = registry.created + 1,
                                   !.instance[r] = registry.created + 1,
                                   !.pc[r] = "caching"]
  /\ UNCHANGED <<matchVars, call, removals, moves, rollConsumed, disconnected, timers>>

\* The cache has been written: createGameInstance returns its instance.
Cached(r) ==
  /\ registry.pc[r] = "caching"
  /\ registry' = [registry EXCEPT !.cachedState = TRUE, !.pc[r] = "done"]
  /\ UNCHANGED <<matchVars, call, removals, moves, rollConsumed, disconnected, timers>>

NextRegistry ==
  \/ \E r \in Requests : Lookup(r)
  \/ \E r \in Requests : Restore(r)
  \/ \E r \in Requests : Miss(r)
  \/ \E r \in Requests : Create(r)
  \/ \E r \in Requests : Cached(r)

SpecRegistry == InitRegistry /\ [][NextRegistry]_vars

\* ------------------------------------------------------- games in progress
\* The record of a move of player 1 or 2 that captured nothing.
played(playerId, diceValue, from, to) ==
  [playerId |-> playerId, pieceIndex |-> 0, diceValue |-> diceValue,
   from |-> from, to |-> to, captured |-> FALSE, capturedPlayer |-> NoPlayer]

\* The match after addPlayer(1), addPlayer(2), startGame(), rollDice(1) = 6
\* and n + 1 times movePiece(1, 0, 6): the first piece of player 1 has left
\* home and stands on square to, which is 6 * n + 1 or, after the tenth move,
\* 56 in the home stretch; player 1 keeps the turn.
RaceState(n, to) ==
  /\ players = <<1, 2>>
  /\ currentTurn = 0
  /\ gameStatus = "playing"
  /\ winnerId = NoPlayer
  /\ lastDiceRoll = [playerId |-> 1, value |-> 6]
  /\ moveHistory =
       [j \in 1..(n + 1) |->
          IF j = 1 THEN played(1, 6, 0, 1)
          ELSE played(1, 6, 6 * j - 11, IF j = 10 THEN 56 ELSE 6 * j - 5)]
  /\ piecePositions = <<(<<to, 0, 0, 0>>), (<<0, 0, 0, 0>>)>>
  /\ call = Call("movePiece", 1, "ok", TRUE, FALSE)
  /\ removals = 0
  /\ moves = 0
  /\ rollConsumed = TRUE
  /\ registry = RegistryLoaded
  /\ disconnected = {}
  /\ timers = NoTimers

\* The match after addPlayer(1), addPlayer(2), startGame(), player 1 rolling
\* 6, 6, 6, 3 and moving its first piece 0 -> 1 -> 7 -> 13 -> 16, and player 2
\* rolling 6 and moving its first piece 0 -> 14: player 2 keeps the turn, two
\* squares behind the piece of player 1.
SkirmishState ==
  /\ players = <<1, 2>>
  /\ currentTurn = 1
  /\ gameStatus = "playing"
  /\ winnerId = NoPlayer
  /\ lastDiceRoll = [playerId |-> 2, value |-> 6]
  /\ moveHistory = <<played(1, 6, 0, 1), played(1, 6, 1, 7), played(1, 6, 7, 13),
                     played(1, 3, 13, 16), played(2, 6, 0, 14)>>
  /\ piecePositions = <<(<<16, 0, 0, 0>>), (<<14, 0, 0, 0>>)>>
  /\ call = Call("movePiece", 2, "ok", TRUE, FALSE)
  /\ removals = 0
  /\ moves = 0
  /\ rollConsumed = TRUE
  /\ registry = RegistryLoaded
  /\ disconnected = {}
  /\ timers = NoTimers

InitPlay == RaceState(8, 49) \/ RaceState(9, 56) \/ SkirmishState

\* The record of a move of any piece that captured nothing.
playedPiece(playerId, pieceIndex, diceValue, from, to) ==
  [playerId |-> playerId, pieceIndex |-> pieceIndex, diceValue |-> diceValue,
   from |-> from, to |-> to, captured |-> FALSE, capturedPlayer |-> NoPlayer]

\* The j-th of the ten moves on a 6 that bring a piece of the player of seat
\* 0 from home to 56: 0 -> 1 -> 7 -> ... -> 49 -> 56.
raceRecord(pieceIndex, j) ==
  IF j = 1 THEN playedPiece(1, pieceIndex, 6, 0, 1)
  ELSE playedPiece(1, pieceIndex, 6, 6 * j - 11, IF j = 10 THEN 56 ELSE 6 * j - 5)

\* The match after player 1 has brought its first piece to 56 on ten rolls
\* of 6 and home to 58 on a 2, player 2 has moved 0 -> 14 -> 15 on a 6 and a
\* 1, and player 1 has brought its second piece to 56 on ten rolls of 6:
\* player 1 keeps the turn, its second piece two slots from home.
EndgameState ==
  /\ players = <<1, 2>>
  /\ currentTurn = 0
  /\ gameStatus = "playing"
  /\ winnerId = NoPlayer
  /\ lastDiceRoll = [playerId |-> 1, value |-> 6]
  /\ moveHistory =
       [j \in 1..23 |->
          IF j <= 10 THEN raceRecord(0, j)
          ELSE IF j = 11 THEN played(1, 2, 56, 58)
          ELSE IF j = 12 THEN played(2, 6, 0, 14)
          ELSE IF j = 13 THEN played(2, 1, 14, 15)
          ELSE raceRecord(1, j - 13)]
  /\ piecePositions = <<(<<58, 56, 0, 0>>), (<<15, 0, 0, 0>>)>>
  /\ call = Call("movePiece", 1, "ok", TRUE, FALSE)
  /\ removals = 0
  /\ moves = 0
  /\ rollConsumed = TRUE
  /\ registry = RegistryLoaded
  /\ disconnected = {}
  /\ timers = NoTimers

\* The match after player 1 has moved 0 -> 1 -> 2 on a 6 and a 1 and player 2
\* has moved its first piece 0 -> 14 -> 20 -> ... -> 50 on seven rolls of 6:
\* player 2, of seat 1, keeps the turn with a piece two squares from the end
\* of the numbering of the track.
WrapState ==
  /\ players = <<1, 2>>
  /\ currentTurn = 1
  /\ gameStatus = "playing"
  /\ winnerId = NoPlayer
  /\ lastDiceRoll = [playerId |-> 2, value |-> 6]
  /\ moveHistory =
       [j \in 1..9 |->
          IF j = 1 THEN played(1, 6, 0, 1)
          ELSE IF j = 2 THEN played(1, 1, 1, 2)
          ELSE IF j = 3 THEN played(2, 6, 0, 14)
          ELSE played(2, 6, 6 * j - 10, 6 * j - 4)]
  /\ piecePositions = <<(<<2, 0, 0, 0>>), (<<50, 0, 0, 0>>)>>
  /\ call = Call("movePiece", 2, "ok", TRUE, FALSE)
  /\ removals = 0
  /\ moves = 0
  /\ rollConsumed = TRUE
  /\ registry = RegistryLoaded
  /\ disconnected = {}
  /\ timers = NoTimers

\* The match of four players after players 1, 2 and 3 have each left home
\* on a 6 and stepped one square on a 1, and player 4, of seat 3, has rolled
\* a 6.
FourSeatsState ==
  /\ players = <<1, 2, 3, 4>>
  /\ currentTurn = 3
  /\ gameStatus = "playing"
  /\ winnerId = NoPlayer
  /\ lastDiceRoll = [playerId |-> 4, value |-> 6]
  /\ moveHistory = <<played(1, 6, 0, 1), played(1, 1, 1, 2),
                     played(2, 6, 0, 14), played(2, 1, 14, 15),
                     played(3, 6, 0, 27), played(3, 1, 27, 28)>>
  /\ piecePositions = <<(<<2, 0, 0, 0>>), (<<15, 0, 0, 0>>),
                        (<<28, 0, 0, 0>>), (<<0, 0, 0, 0>>)>>
  /\ call = Call("rollDice", 4, "ok", FALSE, FALSE)
  /\ removals = 0
  /\ moves = 0
  /\ rollConsumed = FALSE
  /\ registry = RegistryLoaded
  /\ disconnected = {}
  /\ timers = NoTimers

\* The match after player 1 has moved 0 -> 1 -> 7 -> 13 -> 14 on 6, 6, 6, 1
\* and player 2 has rolled a 6: a piece of player 1 stands on the start
\* square of player 2, which is a safe square.
SafeState ==
  /\ players = <<1, 2>>
  /\ currentTurn = 1
  /\ gameStatus = "playing"
  /\ winnerId = NoPlayer
  /\ lastDiceRoll = [playerId |-> 2, value |-> 6]
  /\ moveHistory = <<played(1, 6, 0, 1), played(1, 6, 1, 7), played(1, 6, 7, 13),
                     played(1, 1, 13, 14)>>
  /\ piecePositions = <<(<<14, 0, 0, 0>>), (<<0, 0, 0, 0>>)>>
  /\ call = Call("rollDice", 2, "ok", FALSE, FALSE)
  /\ removals = 0
  /\ moves = 0
  /\ rollConsumed = FALSE
  /\ registry = RegistryLoaded
  /\ disconnected = {}
  /\ timers = NoTimers

InitBoard == EndgameState \/ WrapState \/ SafeState

\* The same calls, on a game in progress.
NextPlay ==
  \/ \E id \in NewPlayerIds(PlayerIds) : AddPlayer(id) /\ Within(PlayMaxMoves)
  \/ \E id \in Callers : RemovePlayer(id) /\ Within(PlayMaxMoves)
  \/ StartGame /\ Within(PlayMaxMoves)
  \/ \E id \in Callers, diceValue \in DiceValues :
       RollDice(id, diceValue) /\ Within(PlayMaxMoves)
  \/ \E id \in Callers, pieceIndex \in PieceInputs, diceValue \in DiceValues :
       MovePiece(id, pieceIndex, diceValue) /\ Within(PlayMaxMoves)

SpecPlay == InitPlay /\ [][NextPlay]_vars

\* The same calls, on these games in progress.
SpecBoard == InitBoard /\ [][NextPlay]_vars

\* The same calls, on the game of four players, which a fifth user asks to
\* join.
NextSeats ==
  \/ \E id \in NewPlayerIds(LobbyPlayerIds) : AddPlayer(id) /\ Within(PlayMaxMoves)
  \/ \E id \in Callers : RemovePlayer(id) /\ Within(PlayMaxMoves)
  \/ StartGame /\ Within(PlayMaxMoves)
  \/ \E id \in Callers, diceValue \in DiceValues :
       RollDice(id, diceValue) /\ Within(PlayMaxMoves)
  \/ \E id \in Callers, pieceIndex \in PieceInputs, diceValue \in DiceValues :
       MovePiece(id, pieceIndex, diceValue) /\ Within(PlayMaxMoves)

SpecSeats == FourSeatsState /\ [][NextSeats]_vars

\* The match of four players after player 1 has moved 0 -> 1 -> 2 on a 6 and
\* a 1 and player 2, of seat 1, has moved its first piece 0 -> 14 -> 20 ->
\* ... -> 50 on seven rolls of 6: player 2 keeps the turn, its piece two
\* squares from the end of the numbering of the track.
FourSeatsLapState ==
  /\ players = <<1, 2, 3, 4>>
  /\ currentTurn = 1
  /\ gameStatus = "playing"
  /\ winnerId = NoPlayer
  /\ lastDiceRoll = [playerId |-> 2, value |-> 6]
  /\ moveHistory =
       [j \in 1..9 |->
          IF j = 1 THEN played(1, 6, 0, 1)
          ELSE IF j = 2 THEN played(1, 1, 1, 2)
          ELSE IF j = 3 THEN played(2, 6, 0, 14)
          ELSE played(2, 6, 6 * j - 10, 6 * j - 4)]
  /\ piecePositions = <<(<<2, 0, 0, 0>>), (<<50, 0, 0, 0>>),
                        (<<0, 0, 0, 0>>), (<<0, 0, 0, 0>>)>>
  /\ call = Call("movePiece", 2, "ok", TRUE, FALSE)
  /\ removals = 0
  /\ moves = 0
  /\ rollConsumed = TRUE
  /\ registry = RegistryLoaded
  /\ disconnected = {}
  /\ timers = NoTimers

\* The same calls, on the game of four players with a piece at the end of
\* the numbering of the track.
SpecLap == FourSeatsLapState /\ [][NextSeats]_vars

\* ------------------------------------------------------------ GameService
\* activeGames.has(gameId)
InMemory == registry.activeGames # NoInstance

\* The rows Game.getPlayers() reads from the database: the players of the
\* match.
dbPlayers == players

\* The fields of new LudoGame(gameId, players).
newLudoGame(newPlayers) ==
  [players |-> newPlayers,
   currentTurn |-> 0,
   gameStatus |-> "waiting",
   winnerId |-> NoPlayer,
   piecePositions |-> [p \in Range(newPlayers) |-> [i \in 1..NumPieces |-> 0]],
   lastDiceRoll |-> NoRoll,
   moveHistory |-> << >>]

\* The registry after cleanupGame(gameId): the match is deleted from
\* activeGames and its snapshot from the cache.
cleanedUp == [registry EXCEPT !.activeGames = NoInstance, !.cachedState = FALSE]

\* getGameInstance(gameId) for a match that is not in memory, no other
\* request running in between: the match is restored from its snapshot in
\* the cache, which every handler writes after it has changed the match, or
\* built anew from the rows of the database.
GetGameInstance ==
  /\ ~InMemory
  /\ registry.created < MaxInstances
  /\ LET gameInstance ==
           IF registry.cachedState
           THEN restoreGameFromState(cached(getGameState))
           ELSE newLudoGame(dbPlayers)
     IN /\ players' = gameInstance.players
        /\ currentTurn' = gameInstance.currentTurn
        /\ gameStatus' = gameInstance.gameStatus
        /\ winnerId' = gameInstance.winnerId
        /\ piecePositions' = gameInstance.piecePositions
        /\ lastDiceRoll' = gameInstance.lastDiceRoll
        /\ moveHistory' = gameInstance.moveHistory
  /\ registry' = [registry EXCEPT !.created = @ + 1,
                                   !.activeGames = registry.created + 1,
                                   !.cachedState = TRUE]
  /\ call' = Call("getGameInstance", NoPlayer, "ok", FALSE, FALSE)
  /\ UNCHANGED <<removals, moves, rollConsumed, disconnected, timers>>

\* The process is started again: new GameService() has an empty activeGames
\* and no timer, and the cache and the database are as they were.
Restart ==
  /\ InMemory
  /\ registry' = [registry EXCEPT !.activeGames = NoInstance]
  /\ timers' = NoTimers
  /\ call' = Call("new GameService", NoPlayer, "ok", FALSE, FALSE)
  /\ UNCHANGED <<matchVars, removals, moves, rollConsumed, disconnected>>

\* addPlayerToGame(gameId, player) on the match in memory.
addPlayerToGame(id) ==
  /\ InMemory
  /\ AddPlayer(id)
  /\ UNCHANGED <<registry, disconnected, timers>>

\* removePlayerFromGame(gameId, playerId) on the match in memory: the match
\* the last player has left is cleaned up.
removePlayerFromGame(id) ==
  /\ InMemory
  /\ RemovePlayer(id)
  /\ registry' = IF id \in Range(players) /\ Len(players') = 0 THEN cleanedUp
                 ELSE registry
  /\ UNCHANGED <<disconnected, timers>>

\* GameService.startGame(gameId) on the match in memory; databaseFails says
\* that Game.findById or game.startGame throws, after the match has been
\* started and before its snapshot is written.
startGameService(databaseFails) ==
  /\ InMemory
  /\ IF databaseFails /\ Len(players) >= minPlayersPerGame
     THEN /\ gameStatus' = "playing"
          /\ currentTurn' = 0
          /\ call' = Call("startGame", NoPlayer, "DatabaseError", FALSE, FALSE)
          /\ UNCHANGED <<players, winnerId, lastDiceRoll, moveHistory, piecePositions,
                         removals, moves, rollConsumed>>
     ELSE StartGame
  /\ UNCHANGED <<registry, disconnected, timers>>

\* GameService.rollDice(gameId, playerId) on the match in memory.
rollDiceService(id, diceValue) ==
  /\ InMemory
  /\ RollDice(id, diceValue)
  /\ UNCHANGED <<registry, disconnected, timers>>

\* movePiece(playerId, pieceIndex, diceValue) moves a piece and ends the
\* match.
endsGame(id, pieceIndex, diceValue) ==
  /\ isPlayerTurn(id) /\ gameStatus = "playing" /\ ~rollMismatch(id, diceValue)
  /\ calculateMove(id, pieceIndex, diceValue).isValid
  /\ LET move == calculateMove(id, pieceIndex, diceValue)
         captured == IF move.canCapture
                     THEN capturePiece(piecePositions, move.capturedPlayer, move.newPosition)
                     ELSE piecePositions
     IN checkWinCondition([captured EXCEPT ![id][pieceIndex + 1] = move.newPosition], id)

\* GameService.movePiece(gameId, playerId, pieceIndex, diceValue) on the
\* match in memory.  saveMove swallows its errors; databaseFails says that
\* endGame, which runs after the move that ends the match, throws.
movePieceService(id, pieceIndex, diceValue, databaseFails) ==
  /\ InMemory
  /\ IF databaseFails /\ endsGame(id, pieceIndex, diceValue)
     THEN LET move == calculateMove(id, pieceIndex, diceValue)
              captured == IF move.canCapture
                          THEN capturePiece(piecePositions, move.capturedPlayer,
                                            move.newPosition)
                          ELSE piecePositions
          IN /\ piecePositions' = [captured EXCEPT ![id][pieceIndex + 1] = move.newPosition]
             /\ moveHistory' = Append(moveHistory, moveRecord(id, pieceIndex, diceValue, move))
             /\ lastDiceRoll' = rollAfterMove
             /\ gameStatus' = "finished"
             /\ winnerId' = id
             /\ call' = Call("movePiece", id, "DatabaseError", FALSE, TRUE)
             /\ rollConsumed' = TRUE
             /\ moves' = moves + 1
             /\ UNCHANGED <<players, currentTurn, removals>>
     ELSE MovePiece(id, pieceIndex, diceValue)
  /\ UNCHANGED <<registry, disconnected, timers>>

\* The runs explored: at most PlayMaxMoves moves and MaxRemovals removals.
WithinService == moves' <= PlayMaxMoves /\ removals' <= MaxRemovals

\* The handlers of GameService on a game in progress, with the failures of
\* the database.
NextService ==
  \/ \E id \in NewPlayerIds(PlayerIds) : addPlayerToGame(id) /\ WithinService
  \/ \E id \in Callers : removePlayerFromGame(id) /\ WithinService
  \/ \E databaseFails \in BOOLEAN : startGameService(databaseFails) /\ WithinService
  \/ \E id \in Callers, diceValue \in DiceValues :
       rollDiceService(id, diceValue) /\ WithinService
  \/ \E id \in Callers, pieceIndex \in PieceInputs, diceValue \in DiceValues,
        databaseFails \in BOOLEAN :
       movePieceService(id, pieceIndex, diceValue, databaseFails) /\ WithinService
  \/ GetGameInstance

SpecService == Init /\ [][NextService]_vars

\* The handlers of GameService on a game in progress, the database
\* answering, with the process started again.
NextRestart ==
  \/ \E id \in NewPlayerIds(PlayerIds) : addPlayerToGame(id) /\ WithinService
  \/ \E id \in Callers : removePlayerFromGame(id) /\ WithinService
  \/ startGameService(FALSE) /\ WithinService
  \/ \E id \in Callers, diceValue \in DiceValues :
       rollDiceService(id, diceValue) /\ WithinService
  \/ \E id \in Callers, pieceIndex \in PieceInputs, diceValue \in DiceValues :
       movePieceService(id, pieceIndex, diceValue, FALSE) /\ WithinService
  \/ Restart
  \/ GetGameInstance

SpecRestart == InitPlay /\ [][NextRestart]_vars

\* ------------------------------------------------------------ connections
\* playerGameMap.get(playerId) is the match: createGameInstance maps the
\* players of the match it builds, and cleanupGame deletes their mappings.
getPlayerGame(id) == InMemory /\ id \in Range(players)

\* No row of game.getPlayers() has is_connected set.
noneConnected == Range(dbPlayers) \subseteq disconnected

\* handlePlayerDisconnection(playerId), for a player who is connected: the
\* database marks the player, and the reconnect timer is armed when no
\* player of a playing match is connected any more.
handlePlayerDisconnection(id) ==
  /\ getPlayerGame(id)
  /\ id \notin disconnected
  /\ UNCHANGED <<matchVars, removals, moves, rollConsumed, registry>>
  /\ disconnected' = disconnected \cup {id}
  /\ timers' = IF noneConnected' /\ gameStatus = "playing"
                THEN [timers EXCEPT !.fresh = @ + 1]
                ELSE timers
  /\ timers'.fresh + timers'.stale <= MaxTimers
  /\ call' = Call("handlePlayerDisconnection", id, "ok", FALSE, FALSE)

\* handlePlayerReconnection(playerId), for a player who was disconnected:
\* the database marks the player as connected; no timer is cancelled.
handlePlayerReconnection(id) ==
  /\ getPlayerGame(id)
  /\ id \in disconnected
  /\ disconnected' = disconnected \ {id}
  /\ timers' = [fresh |-> 0, stale |-> timers.stale + timers.fresh]
  /\ call' = Call("handlePlayerReconnection", id, "ok", FALSE, FALSE)
  /\ UNCHANGED <<matchVars, removals, moves, rollConsumed, registry>>

\* The callback of the reconnect timer armed first, reconnectTimeoutMs after
\* its arming: the match is cleaned up if no player is connected now.
reconnectTimeout ==
  /\ timers.fresh + timers.stale > 0
  /\ timers' = IF timers.stale > 0 THEN [timers EXCEPT !.stale = @ - 1]
                ELSE [timers EXCEPT !.fresh = @ - 1]
  /\ registry' = IF noneConnected THEN cleanedUp ELSE registry
  /\ call' = Call("reconnectTimeout", NoPlayer, "ok", FALSE, FALSE)
  /\ UNCHANGED <<matchVars, removals, moves, rollConsumed, disconnected>>

\* The handlers of GameService on a game in progress whose players lose and
\* find their connections.
NextConnection ==
  \/ \E id \in Callers : handlePlayerDisconnection(id)
  \/ \E id \in Callers : handlePlayerReconnection(id)
  \/ reconnectTimeout
  \/ GetGameInstance
  \/ \E databaseFails \in BOOLEAN : startGameService(databaseFails) /\ WithinService
  \/ \E id \in Callers, diceValue \in DiceValues :
       rollDiceService(id, diceValue) /\ WithinService
  \/ \E id \in Callers, pieceIndex \in PieceInputs, diceValue \in DiceValues,
        databaseFails \in BOOLEAN :
       movePieceService(id, pieceIndex, diceValue, databaseFails) /\ WithinService

SpecConnection == SkirmishState /\ [][NextConnection]_vars

\* ----------------------------------------------------------------- claims
homeTarget == totalSquares + homeSquares
\* The step is a call of op that succeeded.
Succeeded(op) == call'.op = op /\ call'.outcome = "ok"
\* The holder of the turn before the step.
IsActive(id) == Len(players) > 0 /\ players[currentTurn + 1] = id
\* The record of the move the step made.
lastMove == moveHistory'[Len(moveHistory')]
\* The step sent a piece of another player than id back to 0.
captureOccurred(id) ==
  \E p \in DOMAIN piecePositions \ {id} : \E i \in 1..NumPieces :
    piecePositions[p][i] # 0 /\ piecePositions'[p][i] = 0

\* C1: in every reachable state every piece of every player has a position
\* between 0 and 58.
C1_PositionsInRange ==
  \A p \in DOMAIN piecePositions : \A i \in 1..NumPieces :
    piecePositions[p][i] \in 0..homeTarget

\* A piece has just been moved onto the last slot, 58.
C1_Witness ==
  /\ call.op = "movePiece" /\ call.outcome = "ok"
  /\ \E i \in 1..NumPieces : piecePositions[call.playerId][i] = homeTarget

\* C2: rollDice and movePiece succeed only in a playing match and for the
\* holder of the turn; a call of anyone else fails with NotYourTurn, and a
\* call outside the playing status fails with NotYourTurn or InvalidState.
C2_OnlyInTurn ==
  [][call'.op \in {"rollDice", "movePiece"} =>
       /\ call'.outcome = "ok" => gameStatus = "playing" /\ IsActive(call'.playerId)
       /\ ~IsActive(call'.playerId) => call'.outcome = "NotYourTurn"
       /\ gameStatus # "playing" => call'.outcome \in {"NotYourTurn", "InvalidState"}]_vars

\* A player of a playing match has been refused a roll out of turn.
C2_Witness ==
  /\ gameStatus = "playing"
  /\ call.op = "rollDice" /\ call.outcome = "NotYourTurn"
  /\ call.playerId \in Range(players)

\* C3: a movePiece of the holder of the turn in a playing match, with no
\* stored roll, a stored roll of another player or a stored roll of another
\* value, fails with the stale-roll error and changes nothing of the match.
C3_StaleRollRejected ==
  [][(call'.op = "movePiece" /\ gameStatus = "playing" /\ IsActive(call'.playerId)) =>
       \A pieceIndex \in PieceInputs, diceValue \in DiceValues :
         (/\ MovePiece(call'.playerId, pieceIndex, diceValue)
          /\ \/ lastDiceRoll = NoRoll
             \/ lastDiceRoll.playerId # call'.playerId
             \/ lastDiceRoll.value # diceValue)
         => call'.outcome = "StaleRoll" /\ UNCHANGED matchVars]_vars

\* The holder of the turn has been refused a move whose dice value differs
\* from its own stored roll.
C3_Witness ==
  /\ call.op = "movePiece" /\ call.outcome = "StaleRoll"
  /\ gameStatus = "playing"
  /\ lastDiceRoll.playerId = call.playerId

\* C4: a failing addPlayer, startGame, rollDice or movePiece leaves players,
\* piecePositions, currentTurn, gameStatus, winnerId, lastDiceRoll and
\* moveHistory as they were.
C4_FailureChangesNothing ==
  [][(/\ call'.op \in {"addPlayer", "startGame", "rollDice", "movePiece"}
      /\ call'.outcome # "ok")
     => UNCHANGED matchVars]_vars

\* A move has been refused as illegal while a roll is stored.
C4_Witness ==
  /\ call.op = "movePiece" /\ call.outcome = "IllegalMove"
  /\ lastDiceRoll # NoRoll

\* C5: after every successful movePiece the stored roll is cleared.
C5_RollClearedByMove ==
  (call.op = "movePiece" /\ call.outcome = "ok") => lastDiceRoll = NoRoll

\* C6: a stored roll is consumed by at most one move: between two successful
\* movePiece calls there is a successful rollDice.
C6_OneMovePerRoll ==
  [][Succeeded("movePiece") => ~rollConsumed]_vars

\* C7: whenever rollDice succeeds, no roll was stored just before the call.
C7_NoRollOverPendingRoll ==
  [][Succeeded("rollDice") => lastDiceRoll = NoRoll]_vars

\* C8: when the roll of the holder of the turn admits no legal move for any
\* of its pieces, the turn passes to the next player and the stored roll is
\* cleared.
C8_TurnPassesWithoutLegalMove ==
  [][Succeeded("rollDice") =>
       \A diceValue \in DiceValues :
         (/\ RollDice(call'.playerId, diceValue)
          /\ getValidMoves(call'.playerId, diceValue) = {})
         => currentTurn' = (currentTurn + 1) % Len(players) /\ lastDiceRoll' = NoRoll]_vars

\* C9: a successful movePiece with a dice value other than 6 and without a
\* capture advances currentTurn by one modulo the number of players; with a
\* 6 or a capture it leaves currentTurn as it was and reports an extra turn.
C9_TurnAdvance ==
  [][Succeeded("movePiece") =>
       IF lastMove.diceValue # 6 /\ ~captureOccurred(call'.playerId)
       THEN currentTurn' = (currentTurn + 1) % Len(players) /\ ~call'.extraTurn
       ELSE currentTurn' = currentTurn /\ call'.extraTurn]_vars

\* A move on a roll other than 6 has captured a piece and kept the turn.
C9_Witness ==
  /\ call.op = "movePiece" /\ call.outcome = "ok" /\ call.extraTurn
  /\ moveHistory[Len(moveHistory)].diceValue # 6
  /\ moveHistory[Len(moveHistory)].captured

\* C10: the match is finished exactly when winnerId is set and the 4 pieces
\* of the winner are at 58, and a successful movePiece finishes the match
\* with the mover as winner exactly when it leaves the 4 pieces of the mover
\* at 58.
C10_WinExactlyAtAllHome ==
  /\ [](gameStatus = "finished" <=>
          /\ winnerId \in DOMAIN piecePositions
          /\ \A i \in 1..NumPieces : piecePositions[winnerId][i] = homeTarget)
  /\ [][Succeeded("movePiece") =>
          ((gameStatus' = "finished" /\ winnerId' = call'.playerId /\ call'.gameEnded)
           <=> \A i \in 1..NumPieces : piecePositions'[call'.playerId][i] = homeTarget)]_vars

\* A move has brought a piece of the mover to 58 while its other pieces are
\* not there, and the match goes on.
C10_Witness ==
  /\ call.op = "movePiece" /\ call.outcome = "ok" /\ ~call.gameEnded
  /\ \E i \in 1..NumPieces : piecePositions[call.playerId][i] = homeTarget
  /\ gameStatus = "playing"

\* The last call was a movePiece that moved a piece.
MoveDone == call.op = "movePiece" /\ call.outcome = "ok"
\* The record of the last move made.
lastRecord == moveHistory[Len(moveHistory)]
\* The position of the piece of index pieceIndex of player id.
positionOf(id, pieceIndex) == piecePositions[id][pieceIndex + 1]

\* C11: a started match can be played to its end, some player having its 4
\* pieces at 58 and the match being finished.  The pieces of the winner come
\* to 58 one after another, so a move of the holder of the turn, on its
\* stored roll, of a piece in the home stretch that the roll brings exactly
\* to 58 succeeds, also when a piece of the mover stands on 58 already.
C11_FinishReachable ==
  [][(call'.op = "movePiece" /\ gameStatus = "playing" /\ IsActive(call'.playerId)
      /\ lastDiceRoll.playerId = call'.playerId) =>
       \A pieceIndex \in 0..(NumPieces - 1) :
         (/\ MovePiece(call'.playerId, pieceIndex, lastDiceRoll.value)
          /\ positionOf(call'.playerId, pieceIndex) > totalSquares
          /\ positionOf(call'.playerId, pieceIndex) + lastDiceRoll.value = homeTarget)
         => call'.outcome = "ok"]_vars

\* The holder of the turn, with a piece on 58, has been refused the move of
\* a second piece that its stored roll brings exactly to 58.
C11_Witness ==
  /\ call.op = "movePiece" /\ call.outcome = "IllegalMove"
  /\ gameStatus = "playing" /\ lastDiceRoll.playerId = call.playerId
  /\ \E i, j \in 0..(NumPieces - 1) :
       /\ positionOf(call.playerId, i) = homeTarget
       /\ positionOf(call.playerId, j) > totalSquares
       /\ positionOf(call.playerId, j) + lastDiceRoll.value = homeTarget

\* C12: a piece at position 0 has a legal move only on a 6, a move of such a
\* piece puts it on the entry square of the seat of the mover (1, 14, 27, 40
\* for the seats 0..3), and a player with its 4 pieces at 0 has no legal move
\* on a roll of 1..5.
C12_LeavingHome ==
  /\ \A id \in Range(players), pieceIndex \in 0..(NumPieces - 1), diceValue \in DiceValues :
       (positionOf(id, pieceIndex) = 0 /\ calculateMove(id, pieceIndex, diceValue).isValid)
       => /\ diceValue = 6
          /\ calculateMove(id, pieceIndex, diceValue).newPosition =
               <<1, 14, 27, 40>>[getPlayerPosition(id) + 1]
  /\ \A id \in Range(players), diceValue \in 1..5 :
       (\A pieceIndex \in 0..(NumPieces - 1) : positionOf(id, pieceIndex) = 0)
       => getValidMoves(id, diceValue) = {}
  /\ (MoveDone /\ lastRecord.from = 0 /\ call.playerId \in Range(players))
     => /\ lastRecord.diceValue = 6
        /\ positionOf(call.playerId, lastRecord.pieceIndex) =
             <<1, 14, 27, 40>>[getPlayerPosition(call.playerId) + 1]

\* The player of seat 3 has moved a piece from home onto square 40.
C12_Witness ==
  /\ MoveDone /\ lastRecord.from = 0
  /\ getPlayerPosition(call.playerId) = 3
  /\ positionOf(call.playerId, lastRecord.pieceIndex) = 40

\* The home-entry square of the seat player id holds.
homeEntryOf(id) == playerHomeEntrySquares[getPlayerPosition(id) + 1]
\* The square reached from position after steps squares of the track, which
\* leads from square 52 on to square 1.
wrapped(position, steps) ==
  IF position + steps > totalSquares THEN position + steps - totalSquares
  ELSE position + steps
\* Another piece of player id than pieceIndex stands on position.
ownPieceOn(id, pieceIndex, position) ==
  \E idx \in 0..(NumPieces - 1) : idx # pieceIndex /\ positionOf(id, idx) = position

\* C13: for a piece on the track (1..52) whose move does not cross the
\* home-entry square of its player, the move is legal unless another piece of
\* the mover stands on the destination, and the destination is position +
\* diceValue wrapped modulo 52, so that a piece of the seats 1, 2, 3 steps
\* from the squares 47..52 onto the squares 1..6.
C13_TrackMoveWraps ==
  \A id \in Range(players), pieceIndex \in 0..(NumPieces - 1), diceValue \in DiceValues :
    LET position == positionOf(id, pieceIndex)
        destination == wrapped(position, diceValue)
        crosses == \E k \in 0..(diceValue - 1) : wrapped(position, k) = homeEntryOf(id)
        move == calculateMove(id, pieceIndex, diceValue)
    IN (position \in 1..totalSquares /\ ~crosses)
       => IF ownPieceOn(id, pieceIndex, destination) THEN ~move.isValid
          ELSE move.isValid /\ move.newPosition = destination

\* C14: for a piece on the track with position <= homeEntrySquare <
\* position + diceValue, for the home-entry square of its player, the move
\* leads into the home stretch with slot = position + diceValue -
\* homeEntrySquare: it is illegal if slot > 6, and otherwise a legal move has
\* the destination 52 + slot, the move being refused only for a piece of the
\* mover on that destination.
C14_HomeEntry ==
  /\ \A id \in Range(players), pieceIndex \in 0..(NumPieces - 1), diceValue \in DiceValues :
       LET position == positionOf(id, pieceIndex)
           slot == position + diceValue - homeEntryOf(id)
           move == calculateMove(id, pieceIndex, diceValue)
       IN (/\ position \in 1..totalSquares
           /\ position <= homeEntryOf(id) /\ homeEntryOf(id) < position + diceValue)
          => IF slot > 6 THEN ~move.isValid
             ELSE /\ move.isValid => move.newPosition = 52 + slot
                  /\ ~move.isValid => ownPieceOn(id, pieceIndex, 52 + slot)
  /\ (/\ MoveDone /\ call.playerId \in Range(players)
      /\ lastRecord.from \in 1..totalSquares
      /\ lastRecord.from <= homeEntryOf(call.playerId)
      /\ homeEntryOf(call.playerId) < lastRecord.from + lastRecord.diceValue)
     => /\ lastRecord.to =
             52 + (lastRecord.from + lastRecord.diceValue - homeEntryOf(call.playerId))
        /\ positionOf(call.playerId, lastRecord.pieceIndex) = lastRecord.to

\* A piece has been moved from square 49 into the home stretch, on slot 3.
C14_Witness ==
  /\ MoveDone
  /\ lastRecord.from = 49 /\ lastRecord.diceValue = 5
  /\ positionOf(call.playerId, lastRecord.pieceIndex) = 55

\* C15: for a piece in the home stretch (position > 52), with newSlot =
\* (position - 52) + diceValue, the move is illegal whenever newSlot > 6, so
\* that a piece on 58 never moves again, and when newSlot <= 6 and no other
\* piece of the mover stands on the destination the move is legal and its
\* destination is 52 + newSlot.
C15_HomeStretch ==
  /\ \A id \in Range(players), pieceIndex \in 0..(NumPieces - 1), diceValue \in DiceValues :
       LET position == positionOf(id, pieceIndex)
           newSlot == (position - 52) + diceValue
           move == calculateMove(id, pieceIndex, diceValue)
       IN position > 52
          => /\ newSlot > 6 => ~move.isValid
             /\ (newSlot <= 6 /\ ~ownPieceOn(id, pieceIndex, 52 + newSlot))
                => move.isValid /\ move.newPosition = 52 + newSlot
  /\ (MoveDone /\ call.playerId \in Range(players) /\ lastRecord.from > 52)
     => /\ lastRecord.to = lastRecord.from + lastRecord.diceValue
        /\ lastRecord.to <= 58
        /\ positionOf(call.playerId, lastRecord.pieceIndex) = lastRecord.to

\* A piece has been moved inside the home stretch, from 56 to 57, while
\* another piece of its player lies on 58.
C15_Witness ==
  /\ MoveDone
  /\ lastRecord.from = 56
  /\ positionOf(call.playerId, lastRecord.pieceIndex) = 57
  /\ ownPieceOn(call.playerId, lastRecord.pieceIndex, 58)

\* C16: in every reachable state no two pieces of a player stand on the same
\* position other than 0, and no legal move leads onto the position of
\* another piece of the mover.
C16_NoSharedSquare ==
  /\ \A id \in DOMAIN piecePositions : \A i, j \in 0..(NumPieces - 1) :
       (i # j /\ positionOf(id, i) = positionOf(id, j)) => positionOf(id, i) = 0
  /\ \A id \in Range(players), pieceIndex \in 0..(NumPieces - 1), diceValue \in DiceValues :
       calculateMove(id, pieceIndex, diceValue).isValid
       => ~ownPieceOn(id, pieceIndex, calculateMove(id, pieceIndex, diceValue).newPosition)

\* A player with a piece on its start square has been refused the move of a
\* piece from home onto that square on a 6.
C16_Witness ==
  /\ call.op = "movePiece" /\ call.outcome = "IllegalMove"
  /\ call.playerId \in Range(players)
  /\ lastDiceRoll = [playerId |-> call.playerId, value |-> 6]
  /\ \E i, j \in 0..(NumPieces - 1) :
       /\ positionOf(call.playerId, i) = 0
       /\ positionOf(call.playerId, j) =
            playerStartSquares[getPlayerPosition(call.playerId) + 1]

\* C17: whenever the destination of a successful move is a square of the
\* track (<= 52) that is not a safe square and holds a piece of another
\* player B, the result reports captured = true and capturedPlayer = B, and
\* after the move the piece of B that stood on the square is at 0.
C17_CaptureReported ==
  [][Succeeded("movePiece") =>
       \A B \in Range(players) \ {call'.playerId} : \A i \in 0..(NumPieces - 1) :
         (/\ lastMove.to <= 52
          /\ lastMove.to \notin {1, 9, 14, 22, 27, 35, 40, 48}
          /\ positionOf(B, i) = lastMove.to)
         => /\ lastMove.captured
            /\ lastMove.capturedPlayer = B
            /\ piecePositions'[B][i + 1] = 0]_vars

\* A move onto a square of the track that is not safe has been reported as
\* a capture, and the captured player has no piece on that square any more.
C17_Witness ==
  /\ MoveDone /\ lastRecord.captured
  /\ lastRecord.to <= 52 /\ ~isSafeSquare(lastRecord.to)
  /\ lastRecord.capturedPlayer \in Range(players)
  /\ \A i \in 0..(NumPieces - 1) : positionOf(lastRecord.capturedPlayer, i) # lastRecord.to

\* The pieces, as pairs of a player and a piece index, that the step moved.
changedPieces ==
  {pc \in (DOMAIN piecePositions) \X (0..(NumPieces - 1)) :
     piecePositions'[pc[1]][pc[2] + 1] # piecePositions[pc[1]][pc[2] + 1]}

\* C18: a successful capturing move changes exactly two piece positions, the
\* moved piece, which goes to the destination, and one piece of the captured
\* player, which goes to 0; a successful move without a capture changes the
\* moved piece only.
C18_CaptureFrame ==
  [][Succeeded("movePiece") =>
       /\ DOMAIN piecePositions' = DOMAIN piecePositions
       /\ piecePositions'[call'.playerId][lastMove.pieceIndex + 1] = lastMove.to
       /\ IF lastMove.captured
          THEN /\ lastMove.capturedPlayer \in DOMAIN piecePositions \ {call'.playerId}
               /\ \E i \in 0..(NumPieces - 1) :
                    /\ changedPieces = {<<call'.playerId, lastMove.pieceIndex>>,
                                        <<lastMove.capturedPlayer, i>>}
                    /\ piecePositions'[lastMove.capturedPlayer][i + 1] = 0
          ELSE changedPieces = {<<call'.playerId, lastMove.pieceIndex>>}]_vars

\* A piece has moved from 14 to 16 and captured the piece that stood there,
\* the other pieces of both players being at 0 as before.
C18_Witness ==
  /\ MoveDone /\ lastRecord.captured
  /\ lastRecord.from = 14 /\ lastRecord.to = 16
  /\ positionOf(call.playerId, lastRecord.pieceIndex) = 16
  /\ \A i \in 0..(NumPieces - 1) : positionOf(lastRecord.capturedPlayer, i) = 0

\* C19: a move whose destination is one of the safe squares 1, 9, 14, 22,
\* 27, 35, 40, 48 or a position of the home stretch (> 52) never has
\* canCapture set and changes no piece of another player, also when pieces
\* of other players stand on the destination.
C19_SafeSquares ==
  /\ [](\A id \in Range(players), pieceIndex \in 0..(NumPieces - 1), diceValue \in DiceValues :
          LET move == calculateMove(id, pieceIndex, diceValue)
          IN (/\ move.isValid
              /\ move.newPosition \in {1, 9, 14, 22, 27, 35, 40, 48} \/ move.newPosition > 52)
             => ~move.canCapture /\ move.capturedPlayer = NoPlayer)
  /\ [][(/\ Succeeded("movePiece")
         /\ lastMove.to \in {1, 9, 14, 22, 27, 35, 40, 48} \/ lastMove.to > 52)
        => /\ ~lastMove.captured
           /\ \A p \in DOMAIN piecePositions \ {call'.playerId} :
                piecePositions'[p] = piecePositions[p]]_vars

\* A piece has moved onto the safe square 14 where a piece of another player
\* stands, and that piece stands there still.
C19_Witness ==
  /\ MoveDone /\ ~lastRecord.captured
  /\ lastRecord.to = 14
  /\ \E p \in Range(players) \ {call.playerId} : \E i \in 0..(NumPieces - 1) :
       positionOf(p, i) = 14

\* C20: in every reachable state the view of the state returned to a
\* requesting player who is not the holder of the turn has no lastDiceRoll.
C20_RollHiddenFromOthers ==
  \A requestingPlayerId \in Range(players) \cup {Stranger} :
    (Len(players) = 0 \/ players[currentTurn + 1] # requestingPlayerId)
    => getPublicGameState(requestingPlayerId).lastDiceRoll = NoRoll

\* C21: addPlayer succeeds only in the status waiting with fewer than 4
\* players; it fails otherwise, with InvalidState only when the status is not
\* waiting and with Full only when 4 players are present.  On success it
\* appends the player at the end of players and sets its 4 pieces to 0.
\* Hence there are never more than 4 players and nobody is added to a
\* playing or finished match.
C21_AddPlayer ==
  /\ [](Len(players) <= 4)
  /\ [][call'.op = "addPlayer" =>
          /\ call'.outcome = "ok" <=> (gameStatus = "waiting" /\ Len(players) < 4)
          /\ call'.outcome \in {"ok", "InvalidState", "Full"}
          /\ call'.outcome = "InvalidState" => gameStatus # "waiting"
          /\ call'.outcome = "Full" => Len(players) = 4
          /\ call'.outcome = "ok" =>
               /\ players' = Append(players, call'.playerId)
               /\ piecePositions'[call'.playerId] = <<0, 0, 0, 0>>
               /\ \A p \in DOMAIN piecePositions : piecePositions'[p] = piecePositions[p]
          /\ call'.outcome # "ok" => players' = players /\ piecePositions' = piecePositions]_vars
  /\ [][gameStatus # "waiting" => \A p \in Range(players') : p \in Range(players)]_vars

\* A user has been refused as a player of a playing match that has fewer
\* than 4 players.
C21_Witness ==
  /\ call.op = "addPlayer" /\ call.outcome = "InvalidState"
  /\ gameStatus = "playing" /\ Len(players) < 4

\* The holder of the turn, null in a match without players.
getCurrentPlayer == IF Len(players) = 0 THEN NoPlayer ELSE players[currentTurn + 1]
\* The holder of the turn after the step.
currentPlayerAfter == IF Len(players') = 0 THEN NoPlayer ELSE players'[currentTurn' + 1]

\* C22: a removePlayer that removes another player than the holder of the
\* turn leaves the turn with the player who held it; for a removed player
\* whose index is below currentTurn, currentTurn goes down by one.
C22_RemovalKeepsTurn ==
  [][(Succeeded("removePlayer") /\ call'.playerId # getCurrentPlayer) =>
       /\ currentPlayerAfter = getCurrentPlayer
       /\ getPlayerPosition(call'.playerId) < currentTurn => currentTurn' = currentTurn - 1]_vars

\* C23: startGame fails with InvalidState whenever the status is not
\* waiting and whenever there are fewer than 2 players, and changes nothing
\* then; on success it sets the status playing and currentTurn 0 and leaves
\* lastDiceRoll and moveHistory empty.
C23_StartOnlyFromWaiting ==
  [][call'.op = "startGame" =>
       IF gameStatus # "waiting" \/ Len(players) < 2
       THEN call'.outcome = "InvalidState" /\ UNCHANGED matchVars
       ELSE /\ call'.outcome = "ok"
            /\ gameStatus' = "playing" /\ currentTurn' = 0
            /\ lastDiceRoll' = NoRoll /\ moveHistory' = << >>]_vars

\* C25: in every reachable state of a playing match currentTurn is an index
\* of players, 0 <= currentTurn < players.length.
C25_TurnIndexValid ==
  gameStatus = "playing" => (0 <= currentTurn /\ currentTurn < Len(players))

\* C26: in every reachable state of a playing match there are between 2 and
\* 4 players.
C26_PlayersInPlay ==
  gameStatus = "playing" => (2 <= Len(players) /\ Len(players) <= 4)

\* C24: over any sequence of public operations of the match the status
\* changes only from waiting to playing and from playing to finished, and
\* once the match is finished no operation changes gameStatus, winnerId,
\* piecePositions or currentTurn.
C24_StatusSteps ==
  [][/\ gameStatus' # gameStatus =>
          \/ gameStatus = "waiting" /\ gameStatus' = "playing"
          \/ gameStatus = "playing" /\ gameStatus' = "finished"
     /\ gameStatus = "finished" =>
          UNCHANGED <<gameStatus, winnerId, piecePositions, currentTurn>>]_vars

\* C27: in every reachable state, the match restored from the snapshot that
\* getGameState produces equals the match in players, currentTurn,
\* gameStatus, winnerId, piecePositions, lastDiceRoll and the complete
\* moveHistory.
C27_SnapshotRoundTrip ==
  restoreGameFromState(cached(getGameState)) =
    [players |-> players, currentTurn |-> currentTurn, gameStatus |-> gameStatus,
     winnerId |-> winnerId, piecePositions |-> piecePositions,
     lastDiceRoll |-> lastDiceRoll, moveHistory |-> moveHistory]

\* C28: for any interleaving of getGameInstance calls on a match that is not
\* in memory, one instance is built and every call returns the instance that
\* activeGames holds.
C28_OneInstance ==
  /\ registry.created <= 1
  /\ \A r \in Requests :
       registry.pc[r] = "done" => registry.instance[r] = registry.activeGames

\* C29: moveHistory is an append-only log: a successful movePiece appends
\* one record, with the mover, the piece index, the dice value, the
\* positions from and to and the capture, at the end, and every other call,
\* failed or not, leaves moveHistory as it is.
C29_HistoryAppendOnly ==
  [][IF Succeeded("movePiece")
     THEN /\ Len(moveHistory') = Len(moveHistory) + 1
          /\ SubSeq(moveHistory', 1, Len(moveHistory)) = moveHistory
          /\ lastMove.playerId = call'.playerId
          /\ lastMove.pieceIndex \in 0..(NumPieces - 1)
          /\ lastMove.diceValue = lastDiceRoll.value
          /\ lastMove.from = positionOf(call'.playerId, lastMove.pieceIndex)
          /\ lastMove.to = piecePositions'[call'.playerId][lastMove.pieceIndex + 1]
          /\ lastMove.captured <=> captureOccurred(call'.playerId)
          /\ lastMove.captured =>
               \E i \in 1..NumPieces :
                 /\ piecePositions[lastMove.capturedPlayer][i] = lastMove.to
                 /\ piecePositions'[lastMove.capturedPlayer][i] = 0
     ELSE moveHistory' = moveHistory]_vars

\* A call other than a move has succeeded on a match whose history holds
\* moves, and the history ends with a move of player 2.
C29_Witness ==
  /\ call.op \in {"removePlayer", "startGame", "rollDice"} /\ call.outcome = "ok"
  /\ Len(moveHistory) = 6
  /\ lastRecord.playerId = 2 /\ lastRecord.captured

\* C30: for the holder of the turn of a playing match with its own stored
\* roll, movePiece(playerId, pieceIndex, diceValue) on that roll succeeds
\* exactly when getValidMoves(playerId, diceValue) lists pieceIndex, and then
\* the piece ends on the listed destination with the listed capture.
C30_MoveMatchesEnumeration ==
  [][(/\ call'.op = "movePiece" /\ gameStatus = "playing" /\ IsActive(call'.playerId)
      /\ lastDiceRoll.playerId = call'.playerId) =>
       \A pieceIndex \in PieceInputs :
         MovePiece(call'.playerId, pieceIndex, lastDiceRoll.value) =>
           LET listed == {m \in validMoves(call'.playerId, lastDiceRoll.value) :
                            m.pieceIndex = pieceIndex}
           IN /\ call'.outcome = "ok" <=> listed # {}
              /\ call'.outcome # "ok" => call'.outcome = "IllegalMove"
              /\ call'.outcome = "ok" =>
                   \A m \in listed :
                     /\ m.from = positionOf(call'.playerId, pieceIndex)
                     /\ piecePositions'[call'.playerId][pieceIndex + 1] = m.to
                     /\ lastMove.captured = m.canCapture
                     /\ lastMove.capturedPlayer = m.capturedPlayer
                     /\ m.canCapture =>
                          \E i \in 1..NumPieces :
                            /\ piecePositions[m.capturedPlayer][i] = m.to
                            /\ piecePositions'[m.capturedPlayer][i] = 0]_vars

\* A piece has left home on a 6, as the enumeration listed it.
C30_Witness ==
  /\ MoveDone /\ lastRecord.from = 0 /\ lastRecord.diceValue = 6
  /\ lastRecord.pieceIndex = 1
  /\ positionOf(call.playerId, 0) # 0
\* The step applied a move of player id to the match.
movedBy(id) == moves' = moves + 1 /\ call'.playerId = id

\* C31: for every player of the match, in every reachable state,
\* getPlayerStats partitions the 4 pieces of the player into those at 0,
\* those strictly between 0 and 58 and those at 58, and totalMoves is the
\* number of moves the player has made in the match: it goes up by one with
\* every move of the player and is changed by nothing else.
C31_PlayerStats ==
  /\ [](\A id \in Range(players) :
          getPlayerStats(id).piecesAtStart + getPlayerStats(id).piecesInPlay
            + getPlayerStats(id).piecesHome = 4)
  /\ [][\A id \in Range(players) \cap Range(players') :
          getPlayerStats(id).totalMoves' =
            getPlayerStats(id).totalMoves + (IF movedBy(id) THEN 1 ELSE 0)]_vars

\* A player who has made 11 moves is in a match restored from the cache.
C31_Witness ==
  /\ call.op = "getGameInstance" /\ moves = 1
  /\ gameStatus = "playing"
  /\ getPlayerStats(1).totalMoves = 10

\* C32: in every reachable state lastDiceRoll is null or the roll of the
\* holder of the turn, players[currentTurn]: no roll of a player who has lost
\* the turn or has left the match stays stored.
C32_RollOfActivePlayer ==
  lastDiceRoll = NoRoll
  \/ (Len(players) > 0 /\ lastDiceRoll.playerId = players[currentTurn + 1])

\* C33: when GameService.startGame or GameService.movePiece reports a
\* failure to its caller, a failure of the database step that follows the
\* call on the match included, the match in memory is as it was before the
\* call: the start or the move has not been applied.
C33_ServiceFailureChangesNothing ==
  [][(/\ call'.op \in {"startGame", "movePiece"}
      /\ call'.outcome \notin {"ok"})
     => /\ UNCHANGED matchVars
        /\ moves' = moves]_vars

\* GameService.startGame has reported the failure of the database on a
\* match that it has started.
C33_Witness ==
  /\ call.op = "startGame" /\ call.outcome = "DatabaseError"
  /\ gameStatus = "playing" /\ moveHistory = << >>

\* The pieces, as pairs of a player and a piece index, standing on position.
piecesOn(position) ==
  {pc \in (DOMAIN piecePositions) \X (0..(NumPieces - 1)) :
     piecePositions[pc[1]][pc[2] + 1] = position}

\* C34: in every reachable state no square of the track (1..52) that is not
\* a safe square holds pieces of two players, and with the self-block none
\* holds more than one piece; a capture leaves no piece of another player
\* on the square of the capture.
C34_OnePiecePerSquare ==
  /\ [](\A position \in 1..totalSquares :
          position \notin {1, 9, 14, 22, 27, 35, 40, 48}
          => Cardinality(piecesOn(position)) <= 1)
  /\ [][(Succeeded("movePiece") /\ lastMove.captured) =>
          \A p \in DOMAIN piecePositions' \ {call'.playerId} : \A i \in 1..NumPieces :
            piecePositions'[p][i] # lastMove.to]_vars

\* A piece has captured the only piece that stood on its destination, a
\* square that is not safe, and stands there alone.
C34_Witness ==
  /\ MoveDone /\ lastRecord.captured /\ ~isSafeSquare(lastRecord.to)
  /\ piecesOn(lastRecord.to) = {<<call.playerId, lastRecord.pieceIndex>>}

\* The square on which the pieces of player id leave home.
startSquareOf(id) == playerStartSquares[getPlayerPosition(id) + 1]

\* C35: the geometry of a player is the same for the whole match: for
\* every player who stays in the match, the entry square and the home-entry
\* square used for its moves are the same before and after a removePlayer
\* of another player.  Stated for the removals from a match that has been
\* started, where pieces stand on the board.
C35_GeometryStable ==
  [][(Succeeded("removePlayer") /\ gameStatus # "waiting") =>
       \A id \in Range(players) \ {call'.playerId} :
         /\ startSquareOf(id)' = startSquareOf(id)
         /\ homeEntryOf(id)' = homeEntryOf(id)]_vars

\* The player of seat 1 has moved up to seat 0 by the removal of the player
\* who held it.
C35_Witness ==
  /\ call.op = "removePlayer" /\ call.outcome = "ok"
  /\ call.playerId = 1 /\ gameStatus = "playing"
  /\ getPlayerPosition(2) = 0

\* C36: every seat 0..3 of a started match of four players, none of them
\* removed, can bring a piece into its home stretch (position > 52).  The
\* home-entry squares of the seats 1, 2 and 3 (12, 25, 38) lie before their
\* entry squares (14, 27, 40), so a piece of these seats comes to its
\* home-entry square only over the end of the numbering, from a square up to
\* 52 onto the squares that follow square 1: a move of the holder of the
\* turn, on its stored roll, that leads such a piece past square 52 onto a
\* square free of its own pieces succeeds.
C36_EverySeatReachesHome ==
  [][(/\ call'.op = "movePiece" /\ gameStatus = "playing" /\ Len(players) = 4
      /\ removals = 0
      /\ IsActive(call'.playerId) /\ lastDiceRoll.playerId = call'.playerId) =>
       \A pieceIndex \in 0..(NumPieces - 1) :
         LET position == positionOf(call'.playerId, pieceIndex)
             destination == position + lastDiceRoll.value - totalSquares
         IN (/\ MovePiece(call'.playerId, pieceIndex, lastDiceRoll.value)
             /\ homeEntryOf(call'.playerId) < startSquareOf(call'.playerId)
             /\ position \in 1..totalSquares
             /\ destination >= 1
             /\ ~ownPieceOn(call'.playerId, pieceIndex, destination))
            => /\ call'.outcome = "ok"
               /\ piecePositions'[call'.playerId][pieceIndex + 1] = destination]_vars

\* The player of seat 1 of a match of four players has been refused the
\* move of its piece from square 50 on a roll of 6.
C36_Witness ==
  /\ call.op = "movePiece" /\ call.outcome = "IllegalMove"
  /\ Len(players) = 4 /\ removals = 0 /\ gameStatus = "playing"
  /\ getPlayerPosition(call.playerId) = 1
  /\ lastDiceRoll = [playerId |-> call.playerId, value |-> 6]
  /\ positionOf(call.playerId, 0) = 50

C38_EvictionKeepsProgress ==
  [][(/\ call'.op = "getGameInstance"
      /\ ~registry.cachedState
      /\ gameStatus \in {"playing", "finished"}) =>
       ~(/\ gameStatus' = "waiting"
         /\ \A id \in DOMAIN piecePositions' : \A i \in 1..NumPieces :
              piecePositions'[id][i] = 0)]_vars

\* The match evicted with pieces on the board has been built anew, waiting,
\* its players at home.
C38_Witness ==
  /\ call.op = "getGameInstance" /\ InMemory
  /\ gameStatus = "waiting" /\ Len(players) = 2 /\ moveHistory = << >>
  /\ disconnected = {1, 2}

\* C39: the reconnect timer evicts a playing match only if all its players
\* have stayed disconnected from its arming to its firing: a timer armed
\* before a player has reconnected never evicts the match, also when all
\* players are disconnected again as it fires.
C39_TimerNeedsFullWindow ==
  [][(/\ call'.op = "reconnectTimeout"
      /\ InMemory /\ registry'.activeGames = NoInstance) =>
       timers.stale = 0]_vars

\* A timer armed after the last reconnection has evicted the match, all
\* its players being disconnected.
C39_Witness ==
  /\ call.op = "reconnectTimeout" /\ ~InMemory
  /\ timers = NoTimers /\ registry.created = 1
  /\ disconnected = {1, 2}
====
